---- MODULE Spec2Model ----
(***************************************************************************)
(* Model of remove_red_categories.py: the text Matcher                     *)
(* (check_category_in_text / remove_category_from_text), the per-category  *)
(* classifier loop (RedCategoryRemover.process_category) and the run       *)
(* driver (RedCategoryRemover.run).                                        *)
(*                                                                         *)
(* A text is a sequence of characters; a character is a one-character      *)
(* string.  The five letters of the localized keyword are written with     *)
(* their names ("ar_ta", "ar_sad", "ar_nun", "ar_ya", "ar_fa").            *)
(***************************************************************************)
EXTENDS Integers, Sequences, FiniteSets, TLC

(***************************************************************************)
(* Bounds of the model.                                                    *)
(***************************************************************************)
MaxMembers == 3
MaxThreshold == 2
MaxWanted == 2
RunMaxMembers == 1

(***************************************************************************)
(* Characters and case folding (re.IGNORECASE).                            *)
(***************************************************************************)
UpperLetters == <<"A","B","C","D","E","F","G","H","I","J","K","L","M",
                  "N","O","P","Q","R","S","T","U","V","W","X","Y","Z">>
LowerLetters == <<"a","b","c","d","e","f","g","h","i","j","k","l","m",
                  "n","o","p","q","r","s","t","u","v","w","x","y","z">>

\* The lower-case letter of every upper-case letter.
LowerOf ==
    [c \in {UpperLetters[k] : k \in 1..Len(UpperLetters)} |->
        LowerLetters[CHOOSE k \in 1..Len(UpperLetters) : UpperLetters[k] = c]]

\* str.lower() of one character, as re.IGNORECASE compares characters.
Lower(c) == IF c \in DOMAIN LowerOf THEN LowerOf[c] ELSE c

\* Two characters are equal under re.IGNORECASE.
EqIgnoreCase(a, b) == Lower(a) = Lower(b)

\* The class \s on the characters of the model.
IsSpace(c) == c \in {" ", "\n", "\t"}

(***************************************************************************)
(* The pattern family of lines 153-158 and 181-186.                        *)
(***************************************************************************)
KwCategory == <<"C","a","t","e","g","o","r","y">>
KwLower    == <<"c","a","t","e","g","o","r","y">>
KwArabic   == <<"ar_ta","ar_sad","ar_nun","ar_ya","ar_fa">>
KwUpper    == <<"C","A","T","E","G","O","R","Y">>

\* The namespace keywords of the four patterns, in list order.
Keywords == <<KwCategory, KwLower, KwArabic, KwUpper>>

\* re.escape: every character of the name becomes a literal atom of the pattern.
re_escape(category_name) ==
    [k \in 1..Len(category_name) |-> <<"lit", category_name[k]>>]

\* The literal atoms of a fixed piece of pattern text.
Literal(s) == [k \in 1..Len(s) |-> <<"lit", s[k]>>]

\* The fixed-length head of a pattern: \[\[ keyword : escaped_name
PatternHead(keyword, escaped_name) ==
    Literal(<<"[", "[">>) \o Literal(keyword) \o Literal(<<":">>) \o escaped_name

\* The atoms match text at position i, compared with re.IGNORECASE.
AtomsAt(text, i, atoms) ==
    /\ i >= 1
    /\ i + Len(atoms) - 1 <= Len(text)
    /\ \A k \in 1..Len(atoms) : EqIgnoreCase(text[i + k - 1], atoms[k][2])

\* \s* (greedy): the first position at or after i that holds no whitespace.
RECURSIVE SkipSpaces(_, _)
SkipSpaces(text, i) ==
    IF i <= Len(text) /\ IsSpace(text[i]) THEN SkipSpaces(text, i + 1) ELSE i

\* [^\]]* (greedy): the first position at or after i that holds "]" (or the end).
RECURSIVE SkipNonClose(_, _)
SkipNonClose(text, i) ==
    IF i <= Len(text) /\ text[i] # "]" THEN SkipNonClose(text, i + 1) ELSE i

\* The pattern \[\[keyword:name\s*(?:\|[^\]]*)?\]\] matched at position i:
\* the position after the match, or 0 when it does not match there.
MatchEnd(text, i, keyword, escaped_name) ==
    LET head == PatternHead(keyword, escaped_name)
        close == Literal(<<"]", "]">>)
    IN  IF ~AtomsAt(text, i, head) THEN 0
        ELSE LET j == SkipSpaces(text, i + Len(head))
             IN  IF j <= Len(text) /\ text[j] = "|"
                    /\ AtomsAt(text, SkipNonClose(text, j + 1), close)
                 THEN SkipNonClose(text, j + 1) + 2
                 ELSE IF AtomsAt(text, j, close) THEN j + 2 ELSE 0

\* re.search(pattern, text, re.IGNORECASE) is not None.
re_search(text, keyword, escaped_name) ==
    \E i \in 1..Len(text) : MatchEnd(text, i, keyword, escaped_name) # 0

\* The removal pattern adds \n? : the position after the match and one newline.
MatchEndNewline(text, i, keyword, escaped_name) ==
    LET e == MatchEnd(text, i, keyword, escaped_name)
    IN  IF e # 0 /\ e <= Len(text) /\ text[e] = "\n" THEN e + 1 ELSE e

\* re.sub(pattern, '', text, flags=re.IGNORECASE) from position i on:
\* leftmost non-overlapping matches are deleted.
RECURSIVE re_sub_from(_, _, _, _)
re_sub_from(text, i, keyword, escaped_name) ==
    IF i > Len(text) THEN << >>
    ELSE LET e == MatchEndNewline(text, i, keyword, escaped_name)
         IN  IF e # 0 THEN re_sub_from(text, e, keyword, escaped_name)
             ELSE <<text[i]>> \o re_sub_from(text, i + 1, keyword, escaped_name)

re_sub(text, keyword, escaped_name) == re_sub_from(text, 1, keyword, escaped_name)

\* RedCategoryRemover.check_category_in_text
check_category_in_text(text, category_name) ==
    LET escaped_name == re_escape(category_name)
    IN  \E p \in 1..Len(Keywords) : re_search(text, Keywords[p], escaped_name)

\* Mutant of remove_category_from_text: only the first pattern is applied.
remove_first_pattern_only(text, category_name) ==
    re_sub(text, KwCategory, re_escape(category_name))

\* RedCategoryRemover.remove_category_from_text: the four substitutions in order.
RECURSIVE remove_patterns(_, _, _)
remove_patterns(modified_text, p, escaped_name) ==
    IF p > Len(Keywords) THEN modified_text
    ELSE remove_patterns(re_sub(modified_text, Keywords[p], escaped_name),
                         p + 1, escaped_name)

remove_category_from_text(text, category_name) ==
    remove_patterns(text, 1, re_escape(category_name))


(***************************************************************************)
(* Category names and page texts the model draws its inputs from.          *)
(***************************************************************************)
CatA == <<"X", "y">>
CatB == <<"Z", "z">>

\* "ab": no category markup at all.
TextPlain == <<"a", "b">>
\* "a[[Category:Xy]]\nb": the markup of CatA, directly authored.
TextDirect == <<"a">> \o <<"[", "[">> \o KwCategory \o <<":">> \o CatA
                  \o <<"]", "]", "\n", "b">>
\* "[[<localized keyword>:xy |k]]": localized keyword, other letter case,
\* trailing blank, sort key.
TextVariant == <<"[", "[">> \o KwArabic \o <<":", "x", "y", " ", "|", "k", "]", "]">>
\* "[[Category:Zz]]b": the markup of CatB only.
TextOther == <<"[", "[">> \o KwCategory \o <<":">> \o CatB \o <<"]", "]", "b">>

\* "[[<kw>:[[<kw>:Xy]]Xy]]": a link to CatA written inside the name of
\* another, localized keyword.
TextNested == <<"[", "[">> \o KwArabic \o <<":">>
                  \o <<"[", "[">> \o KwArabic \o <<":">> \o CatA \o <<"]", "]">>
                  \o CatA \o <<"]", "]">>

MainNamespace == 0

Page(ns, text) == [namespace |-> ns, text |-> text]

\* The kinds of member page a listing of the classifier model is built from.
PageKinds ==
    {Page(MainNamespace, t) : t \in {TextPlain, TextDirect, TextVariant}}
        \cup {Page(14, TextDirect)}

\* The kinds of member page a listing of the run model is built from.
RunPageKinds ==
    {Page(MainNamespace, TextPlain), Page(MainNamespace, TextDirect),
     Page(14, TextDirect)}

SeqsUpTo(S, n) == UNION {[1..k -> S] : k \in 0..n}

Listings == SeqsUpTo(PageKinds, MaxMembers)
\* A listing whose first member is edited and whose second is a miss.
EditThenMiss == <<Page(MainNamespace, TextDirect), Page(MainNamespace, TextPlain)>>
RunListings == SeqsUpTo(RunPageKinds, RunMaxMembers) \cup {EditThenMiss}

\* The pages and listings of a category that is processed twice.
ResumeMaxMembers == 2
ResumePageKinds ==
    {Page(MainNamespace, t) : t \in {TextPlain, TextDirect, TextNested}}
        \cup {Page(14, TextDirect)}
ResumeListings == SeqsUpTo(ResumePageKinds, ResumeMaxMembers)

\* The listings of a category that is processed in both modes.
ModesMaxMembers == 3
ModesListings == SeqsUpTo(RunPageKinds, ModesMaxMembers)

\* The listings get_category_members may return in each kind of run.
ListingsOf(mode) ==
    CASE mode = "off" -> Listings
      [] mode = "resume" -> ResumeListings
      [] mode = "modes" -> ModesListings
      [] OTHER -> RunListings

\* The thresholds the constructor is given: it checks nothing, so 0 is one of them.
Thresholds == 0..MaxThreshold

(***************************************************************************)
(* State.                                                                  *)
(***************************************************************************)
VARIABLES
    max_check,          \* self.max_check
    dry_run,            \* self.dry_run
    pc,                 \* position in process_category:
                        \*   "idle", "start", "loop", "done", "raised"
    category_name,      \* the argument of process_category
    members,            \* the listing get_category_members returned
    i,                  \* index of the member the loop is at (1-based)
    edits_made,
    not_found_count,
    result,             \* <<edits_made, skipped>> once returned, << >> before
    trace,              \* what this call did to each member it handled
    rpc,                \* position in run: "off" (no run), "connect", "wanted",
                        \*   "loop", "finished", "exit_connect", "exit_empty"
    wanted_categories,
    ci,                 \* index of the category the run loop is at (1-based)
    total_edits,
    skipped_categories,
    calls,              \* the categories handed to process_category, in order
    run_log,            \* one entry per category the run loop has finished
    summary,            \* the summary lines, << >> before they are logged
    io_log,             \* the calls run made to connect and to the wanted list
    pass,               \* 1 in the first call of process_category, 2 in a repeat
    first_trace,        \* the trace of the first call, once a repeat has begun
    first_result,       \* what the first call returned, once a repeat has begun
    m_pc,               \* position of the Matcher exercise: "off", "input",
                        \*   "checked", "removed", "done"
    m_text,             \* the text given to the Matcher
    m_name,             \* the category name given to the Matcher
    m_found,            \* check_category_in_text(m_text, m_name)
    m_removed,          \* remove_category_from_text(m_text, m_name)
    m_twice             \* remove_category_from_text(m_removed, m_name)

cfg_vars == <<max_check, dry_run>>
proc_vars == <<pc, category_name, members, i, edits_made, not_found_count,
               result, trace>>
run_vars == <<rpc, wanted_categories, ci, total_edits, skipped_categories,
              calls, run_log, summary, io_log>>
resume_vars == <<pass, first_trace, first_result>>
match_vars == <<m_pc, m_text, m_name, m_found, m_removed, m_twice>>
vars == <<cfg_vars, proc_vars, run_vars, resume_vars, match_vars>>

(***************************************************************************)
(* process_category                                                        *)
(***************************************************************************)
\* get_category_members: the first listing, the second lookup when the first
\* is empty, and [] when the lookup raises.
get_category_members(first, second, raises) ==
    IF raises THEN << >>
    ELSE IF first = << >> THEN second ELSE first

\* Mutant of SaveCall: the fetched text is saved instead of the new text.
SaveCall_OldText(text, new_text, name) ==
    [content |-> text,
     summary |-> <<"Removing non-existent category: [[Category:", name, "]]">>,
     minor |-> TRUE]

\* Mutant of SaveCall: the summary quotes the fetched text and the edit is
\* not flagged as minor.
SaveCall_SummaryOfText(text, new_text, name) ==
    [content |-> new_text,
     summary |-> <<"Removing non-existent category: [[Category:", text, "]]">>,
     minor |-> FALSE]

\* The save call of lines 244-245.
SaveCall(text, new_text, name) ==
    [content |-> new_text,
     summary |-> <<"Removing non-existent category: [[Category:", name, "]]">>,
     minor |-> TRUE]

\* Mutant of SavesOf: the dry-run flag is ignored.
SavesOf_IgnoresDryRun(text, new_text, name) ==
    <<SaveCall(text, new_text, name)>>

\* Lines 240-246: the save calls made for a changed text: none in a dry run.
SavesOf(text, new_text, name) ==
    IF dry_run THEN << >> ELSE <<SaveCall(text, new_text, name)>>

\* Mutant of ResetStreak: a dry run keeps the streak.
ResetStreak_OnlyLive(count) == IF dry_run THEN count ELSE 0

\* Mutant of ResetStreak: the streak survives an edit (a total, not a streak).
ResetStreak_Kept(count) == count

\* Line 249: the streak is reset by an edit.
ResetStreak(count) == 0

\* Line 254: the streak grows by one on a page without the markup.
ExtendStreak(count) == count + 1

\* Line 213: the result for an empty listing.
EmptyResult == <<0, FALSE>>

\* Mutant of CutoverResult: the cutover is reported as a normal end.
CutoverResult_NotSkipped(edits) == <<edits, FALSE>>

\* Line 260: the result at the cutover.
CutoverResult(edits) == <<edits, TRUE>>

\* Line 266: the result when the listing is exhausted.
ExhaustedResult(edits) == <<edits, FALSE>>

\* Mutant of IsArticle: the namespace is not looked at.
IsArticle_Any(page) == TRUE

\* Line 223: only main-namespace pages are examined.
IsArticle(page) == page.namespace = MainNamespace

\* Mutant of Cutover: the test is off by one.
Cutover_OffByOne(count, threshold) == count > threshold

\* Line 257: the cutover test.
Cutover(count, threshold) == count >= threshold

\* One entry of the trace of a call.
Event(idx, kind, fetched, text, saves) ==
    [idx |-> idx, kind |-> kind, fetched |-> fetched, text |-> text,
     saves |-> saves, edits |-> edits_made', nf |-> not_found_count']

\* Lines 209-218: the listing is fetched; an empty one returns (0, False).
GetMembers ==
    /\ pc = "start"
    /\ \E raises \in BOOLEAN,
          first \in ListingsOf(rpc) :
         \E second \in (IF first = << >> /\ ~raises
                        THEN ListingsOf(rpc)
                        ELSE {<< >>}) :
            LET m == get_category_members(first, second, raises)
            IN  /\ members' = m
                /\ IF m = << >>
                   THEN /\ pc' = "done"
                        /\ result' = EmptyResult
                   ELSE /\ pc' = "loop"
                        /\ result' = << >>
    /\ i' = 1
    /\ edits_made' = 0
    /\ not_found_count' = 0
    /\ trace' = << >>
    /\ UNCHANGED <<category_name, cfg_vars, run_vars, resume_vars, match_vars>>

\* Lines 223-225: a page outside the main namespace is passed over.
SkipNonArticle ==
    /\ pc = "loop" /\ i <= Len(members)
    /\ ~IsArticle(members[i])
    /\ i' = i + 1
    /\ UNCHANGED <<edits_made, not_found_count>>
    /\ trace' = Append(trace, Event(i, "non_article", FALSE, << >>, << >>))
    /\ UNCHANGED <<pc, category_name, members, result, cfg_vars, run_vars, resume_vars, match_vars>>

\* Mutant of FetchFails: a page whose text cannot be fetched counts as a
\* page without the markup.
FetchFails_CountsAsMiss ==
    /\ pc = "loop" /\ i <= Len(members)
    /\ IsArticle(members[i])
    /\ i' = i + 1
    /\ UNCHANGED edits_made
    /\ not_found_count' = not_found_count + 1
    /\ trace' = Append(trace, Event(i, "fetch_error", FALSE, << >>, << >>))
    /\ UNCHANGED <<pc, category_name, members, result, cfg_vars, run_vars, resume_vars, match_vars>>

\* Mutant of FetchFails: the member whose fetch raised is tried again.
FetchFails_Retries ==
    /\ pc = "loop" /\ i <= Len(members)
    /\ IsArticle(members[i])
    /\ UNCHANGED <<i, edits_made, not_found_count>>
    /\ trace' = Append(trace, Event(i, "fetch_error", FALSE, << >>, << >>))
    /\ UNCHANGED <<pc, category_name, members, result, cfg_vars, run_vars, resume_vars, match_vars>>

\* Line 230 raises; lines 262-264 log it and go to the next member.
FetchFails ==
    /\ pc = "loop" /\ i <= Len(members)
    /\ IsArticle(members[i])
    /\ i' = i + 1
    /\ UNCHANGED <<edits_made, not_found_count>>
    /\ trace' = Append(trace, Event(i, "fetch_error", FALSE, << >>, << >>))
    /\ UNCHANGED <<pc, category_name, members, result, cfg_vars, run_vars, resume_vars, match_vars>>

\* Lines 230-251 with no exception: the markup is in the text.
PageFound ==
    /\ pc = "loop" /\ i <= Len(members)
    /\ IsArticle(members[i])
    /\ LET text == members[i].text
           new_text == remove_category_from_text(text, category_name)
       IN  /\ check_category_in_text(text, category_name)
           /\ IF new_text # text
              THEN /\ edits_made' = edits_made + 1
                   /\ not_found_count' = ResetStreak(not_found_count)
                   /\ trace' = Append(trace,
                          Event(i, "edited", TRUE, text,
                                SavesOf(text, new_text, category_name)))
                   /\ members' = IF SavesOf(text, new_text, category_name) = << >>
                                 THEN members
                                 ELSE [members EXCEPT ![i].text =
                                         SavesOf(text, new_text, category_name)[1].content]
              ELSE /\ UNCHANGED <<edits_made, not_found_count, members>>
                   /\ trace' = Append(trace,
                          Event(i, "unchanged", TRUE, text, << >>))
    /\ i' = i + 1
    /\ UNCHANGED <<pc, category_name, result, cfg_vars, run_vars, resume_vars, match_vars>>

\* Mutant of SaveFails: the edit is counted before the save is attempted.
SaveFails_CountsEdit ==
    /\ pc = "loop" /\ i <= Len(members)
    /\ IsArticle(members[i])
    /\ ~dry_run
    /\ LET text == members[i].text
           new_text == remove_category_from_text(text, category_name)
       IN  /\ check_category_in_text(text, category_name)
           /\ new_text # text
           /\ edits_made' = edits_made + 1
           /\ UNCHANGED not_found_count
           /\ trace' = Append(trace,
                  Event(i, "save_error", TRUE, text,
                        <<SaveCall(text, new_text, category_name)>>))
    /\ i' = i + 1
    /\ UNCHANGED <<pc, category_name, members, result, cfg_vars, run_vars, resume_vars, match_vars>>

\* Lines 230-245 where page.save raises; lines 262-264 log it and go on.
SaveFails ==
    /\ pc = "loop" /\ i <= Len(members)
    /\ IsArticle(members[i])
    /\ ~dry_run
    /\ LET text == members[i].text
           new_text == remove_category_from_text(text, category_name)
       IN  /\ check_category_in_text(text, category_name)
           /\ new_text # text
           /\ UNCHANGED <<edits_made, not_found_count>>
           /\ trace' = Append(trace,
                  Event(i, "save_error", TRUE, text,
                        <<SaveCall(text, new_text, category_name)>>))
    /\ i' = i + 1
    /\ UNCHANGED <<pc, category_name, members, result, cfg_vars, run_vars, resume_vars, match_vars>>

\* Lines 230-233, 252-260: the markup is not in the text.
PageNotFound ==
    /\ pc = "loop" /\ i <= Len(members)
    /\ IsArticle(members[i])
    /\ ~check_category_in_text(members[i].text, category_name)
    /\ not_found_count' = ExtendStreak(not_found_count)
    /\ UNCHANGED edits_made
    /\ trace' = Append(trace,
           Event(i, "not_found", TRUE, members[i].text, << >>))
    /\ IF Cutover(not_found_count', max_check)
       THEN /\ pc' = "done"
            /\ result' = CutoverResult(edits_made)
            /\ i' = i
       ELSE /\ i' = i + 1
            /\ UNCHANGED <<pc, result>>
    /\ UNCHANGED <<category_name, members, cfg_vars, run_vars, resume_vars, match_vars>>

\* Mutant of Exhausted: the listing is gone through again.
Exhausted_Restarts ==
    /\ pc = "loop" /\ i > Len(members)
    /\ i' = 1
    /\ edits_made' = 0
    /\ not_found_count' = 0
    /\ trace' = << >>
    /\ UNCHANGED <<pc, result, category_name, members,
                   cfg_vars, run_vars, resume_vars, match_vars>>

\* Line 266: the listing is exhausted.
Exhausted ==
    /\ pc = "loop" /\ i > Len(members)
    /\ pc' = "done"
    /\ result' = ExhaustedResult(edits_made)
    /\ UNCHANGED <<category_name, members, i, edits_made, not_found_count,
                   trace, cfg_vars, run_vars, resume_vars, match_vars>>

\* The state after construction, at the call of process_category.
Init ==
    /\ max_check \in Thresholds
    /\ dry_run \in BOOLEAN
    /\ pc = "start"
    /\ category_name = CatA
    /\ members = << >>
    /\ i = 1
    /\ edits_made = 0
    /\ not_found_count = 0
    /\ result = << >>
    /\ trace = << >>
    /\ rpc = "off"
    /\ wanted_categories = << >>
    /\ ci = 1
    /\ total_edits = 0
    /\ skipped_categories = 0
    /\ calls = << >>
    /\ run_log = << >>
    /\ summary = << >>
    /\ io_log = << >>
    /\ pass = 1
    /\ first_trace = << >>
    /\ first_result = << >>
    /\ m_pc = "off"
    /\ m_text = << >>
    /\ m_name = << >>
    /\ m_found = FALSE
    /\ m_removed = << >>
    /\ m_twice = << >>

Next ==
    \/ GetMembers
    \/ SkipNonArticle
    \/ FetchFails
    \/ PageFound
    \/ SaveFails
    \/ PageNotFound
    \/ Exhausted

Spec == Init /\ [][Next]_vars

(***************************************************************************)
(* run                                                                     *)
(***************************************************************************)
\* The titles the wanted-categories query answers with: "Category:Xy" and "Zz".
TitleA == KwCategory \o <<":">> \o CatA
TitleB == CatB
TitleLists == SeqsUpTo({TitleA, TitleB}, MaxWanted)

\* Position of the first ":" of a title, 0 when it has none.
RECURSIVE FirstColon(_, _)
FirstColon(title, k) ==
    IF k > Len(title) THEN 0
    ELSE IF title[k] = ":" THEN k ELSE FirstColon(title, k + 1)

\* Lines 97-101: the name is what follows the first ":" of the title.
CatNameOf(cat_title) ==
    IF FirstColon(cat_title, 1) # 0
    THEN SubSeq(cat_title, FirstColon(cat_title, 1) + 1, Len(cat_title))
    ELSE cat_title

\* get_wanted_categories: the names of the titles, [] when the query raises.
get_wanted_categories(titles, raises) ==
    IF raises THEN << >>
    ELSE [k \in 1..Len(titles) |-> CatNameOf(titles[k])]

\* Mutant of AfterConnect: the result of connect() is ignored.
AfterConnect_IgnoresFailure(connected) == "wanted"

\* Lines 278-280: run goes on only when connect() returned True.
AfterConnect(connected) == IF connected THEN "wanted" ELSE "exit_connect"

\* Lines 285-287: run goes on only when the wanted list is not empty.
AfterWanted(w) == IF w = << >> THEN "exit_empty" ELSE "loop"

\* What get_wanted_categories did: it raised inside (and returned []),
\* returned an empty list, or returned names.
WantedOutcome(titles, raises) ==
    IF raises THEN "raised" ELSE IF titles = << >> THEN "empty" ELSE "ok"

\* Mutant of AddEdits: the edits of a skipped category are dropped.
AddEdits_SkipsCutover(total, res) == IF res[2] THEN total ELSE total + res[1]

\* Line 298: total_edits += edits.
AddEdits(total, res) == total + res[1]

\* Lines 300-301: skipped_categories += 1 when the call said skipped.
AddSkipped(count, res) == count + (IF res[2] THEN 1 ELSE 0)

\* Lines 278-280: connect() returns True or False.
Connect ==
    /\ rpc = "connect"
    /\ \E connected \in BOOLEAN :
         /\ rpc' = AfterConnect(connected)
         /\ io_log' = Append(io_log,
                [call |-> "connect",
                 outcome |-> IF connected THEN "ok" ELSE "failed"])
    /\ UNCHANGED <<wanted_categories, ci, total_edits, skipped_categories,
                   calls, run_log, summary, proc_vars, cfg_vars, resume_vars, match_vars>>

\* Lines 283-291: the wanted list is fetched; an empty one ends the run.
GetWanted ==
    /\ rpc = "wanted"
    /\ \E raises \in BOOLEAN, titles \in TitleLists :
         LET w == get_wanted_categories(titles, raises)
         IN  /\ wanted_categories' = w
             /\ rpc' = AfterWanted(w)
             /\ io_log' = Append(io_log,
                    [call |-> "get_wanted_categories",
                     outcome |-> WantedOutcome(titles, raises)])
    /\ ci' = 1
    /\ total_edits' = 0
    /\ skipped_categories' = 0
    /\ UNCHANGED <<calls, run_log, summary, proc_vars, cfg_vars, resume_vars, match_vars>>

\* Lines 293-297: the next category is handed to process_category.
CallProcess ==
    /\ rpc = "loop" /\ pc = "idle" /\ ci <= Len(wanted_categories)
    /\ pc' = "start"
    /\ category_name' = wanted_categories[ci]
    /\ calls' = Append(calls, wanted_categories[ci])
    /\ members' = << >>
    /\ i' = 1
    /\ edits_made' = 0
    /\ not_found_count' = 0
    /\ result' = << >>
    /\ trace' = << >>
    /\ UNCHANGED <<rpc, wanted_categories, ci, total_edits, skipped_categories,
                   run_log, summary, io_log, cfg_vars, resume_vars, match_vars>>

\* An exception leaves process_category: one raised outside the per-page
\* try block (lines 204-220) or inside its handler (line 263).
ProcessRaises ==
    /\ rpc = "loop" /\ pc \in {"start", "loop"}
    /\ pc' = "raised"
    /\ UNCHANGED <<category_name, members, i, edits_made, not_found_count,
                   result, trace, cfg_vars, run_vars, resume_vars, match_vars>>

\* Lines 297-301: the call returned; the totals take its result.
CategoryReturned ==
    /\ rpc = "loop" /\ pc = "done"
    /\ total_edits' = AddEdits(total_edits, result)
    /\ skipped_categories' = AddSkipped(skipped_categories, result)
    /\ run_log' = Append(run_log,
           [category |-> category_name, outcome |-> "returned",
            edits |-> result[1], skipped |-> result[2]])
    /\ ci' = ci + 1
    /\ pc' = "idle"
    /\ UNCHANGED <<rpc, wanted_categories, calls, summary, io_log, category_name,
                   members, i, edits_made, not_found_count, result, trace,
                   cfg_vars, resume_vars, match_vars>>

\* Mutant of CategoryFailed: the handler leaves the loop (break for continue).
CategoryFailed_Breaks ==
    /\ rpc = "loop" /\ pc = "raised"
    /\ run_log' = Append(run_log,
           [category |-> category_name, outcome |-> "raised",
            edits |-> 0, skipped |-> FALSE])
    /\ ci' = Len(wanted_categories) + 1
    /\ pc' = "idle"
    /\ UNCHANGED <<rpc, wanted_categories, total_edits, skipped_categories,
                   calls, summary, io_log, category_name, members, i, edits_made,
                   not_found_count, result, trace, cfg_vars, resume_vars, match_vars>>

\* Mutant of CategoryFailed: the exception leaves run.
CategoryFailed_Propagates ==
    /\ rpc = "loop" /\ pc = "raised"
    /\ rpc' = "crashed"
    /\ UNCHANGED <<wanted_categories, ci, total_edits, skipped_categories,
                   calls, run_log, summary, io_log, proc_vars, cfg_vars,
                   resume_vars, match_vars>>

\* Lines 303-305: the call raised; the error is logged and the loop goes on.
CategoryFailed ==
    /\ rpc = "loop" /\ pc = "raised"
    /\ run_log' = Append(run_log,
           [category |-> category_name, outcome |-> "raised",
            edits |-> 0, skipped |-> FALSE])
    /\ ci' = ci + 1
    /\ pc' = "idle"
    /\ UNCHANGED <<rpc, wanted_categories, total_edits, skipped_categories,
                   calls, summary, io_log, category_name, members, i, edits_made,
                   not_found_count, result, trace, cfg_vars, resume_vars, match_vars>>

\* Lines 307-314: the summary.
Summary ==
    /\ rpc = "loop" /\ pc = "idle" /\ ci > Len(wanted_categories)
    /\ summary' = <<[processed |-> Len(wanted_categories),
                     skipped |-> skipped_categories,
                     edits |-> total_edits]>>
    /\ rpc' = "finished"
    /\ UNCHANGED <<wanted_categories, ci, total_edits, skipped_categories,
                   calls, run_log, io_log, proc_vars, cfg_vars, resume_vars, match_vars>>

\* The state after construction, at the call of run.
InitRun ==
    /\ max_check \in {1, MaxThreshold}
    /\ dry_run \in BOOLEAN
    /\ pc = "idle"
    /\ category_name = << >>
    /\ members = << >>
    /\ i = 1
    /\ edits_made = 0
    /\ not_found_count = 0
    /\ result = << >>
    /\ trace = << >>
    /\ rpc = "connect"
    /\ wanted_categories = << >>
    /\ ci = 1
    /\ total_edits = 0
    /\ skipped_categories = 0
    /\ calls = << >>
    /\ run_log = << >>
    /\ summary = << >>
    /\ io_log = << >>
    /\ pass = 1
    /\ first_trace = << >>
    /\ first_result = << >>
    /\ m_pc = "off"
    /\ m_text = << >>
    /\ m_name = << >>
    /\ m_found = FALSE
    /\ m_removed = << >>
    /\ m_twice = << >>

NextRun ==
    \/ Connect
    \/ GetWanted
    \/ CallProcess
    \/ GetMembers
    \/ SkipNonArticle
    \/ FetchFails
    \/ PageFound
    \/ SaveFails
    \/ PageNotFound
    \/ Exhausted
    \/ ProcessRaises
    \/ CategoryReturned
    \/ CategoryFailed
    \/ Summary

SpecRun == InitRun /\ [][NextRun]_vars

\* run is one sequential thread: a step that can be taken is taken.
SpecRunFair == SpecRun /\ WF_vars(NextRun)

\* Every execution: a call of process_category on its own or a call of
\* run, each a sequential thread that takes the step it can take.
SpecTerminating ==
    (Init \/ InitRun) /\ [][NextRun]_vars /\ WF_vars(NextRun)

(***************************************************************************)
(* process_category called a second time for the same category, in live    *)
(* mode, the pages being as the first call left them.                      *)
(***************************************************************************)
\* Lines 209-218 of the second call: the listing holds the same pages.
Reprocess ==
    /\ rpc = "resume" /\ pc = "done" /\ pass = 1
    /\ pass' = 2
    /\ first_trace' = trace
    /\ first_result' = result
    /\ IF members = << >>
       THEN /\ pc' = "done"
            /\ result' = EmptyResult
       ELSE /\ pc' = "loop"
            /\ result' = << >>
    /\ i' = 1
    /\ edits_made' = 0
    /\ not_found_count' = 0
    /\ trace' = << >>
    /\ UNCHANGED <<category_name, members, cfg_vars, run_vars, match_vars>>

InitResume ==
    /\ max_check \in 1..MaxThreshold
    /\ dry_run = FALSE
    /\ pc = "start"
    /\ category_name = CatA
    /\ members = << >>
    /\ i = 1
    /\ edits_made = 0
    /\ not_found_count = 0
    /\ result = << >>
    /\ trace = << >>
    /\ rpc = "resume"
    /\ wanted_categories = << >>
    /\ ci = 1
    /\ total_edits = 0
    /\ skipped_categories = 0
    /\ calls = << >>
    /\ run_log = << >>
    /\ summary = << >>
    /\ io_log = << >>
    /\ pass = 1
    /\ first_trace = << >>
    /\ first_result = << >>
    /\ m_pc = "off"
    /\ m_text = << >>
    /\ m_name = << >>
    /\ m_found = FALSE
    /\ m_removed = << >>
    /\ m_twice = << >>

NextResume ==
    \/ GetMembers
    \/ SkipNonArticle
    \/ FetchFails
    \/ PageFound
    \/ SaveFails
    \/ PageNotFound
    \/ Exhausted
    \/ Reprocess

SpecResume == InitResume /\ [][NextResume]_vars

(***************************************************************************)
(* process_category called by a remover in dry-run mode and then, for the  *)
(* same listing, by a remover in live mode with the same threshold.  The   *)
(* dry run has written nothing, so the pages are the same.                 *)
(***************************************************************************)
\* Lines 209-218 of the call in live mode.
RerunLive ==
    /\ rpc = "modes" /\ pc = "done" /\ pass = 1
    /\ pass' = 2
    /\ dry_run' = FALSE
    /\ first_trace' = trace
    /\ first_result' = result
    /\ IF members = << >>
       THEN /\ pc' = "done"
            /\ result' = EmptyResult
       ELSE /\ pc' = "loop"
            /\ result' = << >>
    /\ i' = 1
    /\ edits_made' = 0
    /\ not_found_count' = 0
    /\ trace' = << >>
    /\ UNCHANGED <<category_name, members, max_check, run_vars, match_vars>>

InitModes ==
    /\ max_check \in 1..MaxThreshold
    /\ dry_run = TRUE
    /\ pc = "start"
    /\ category_name = CatA
    /\ members = << >>
    /\ i = 1
    /\ edits_made = 0
    /\ not_found_count = 0
    /\ result = << >>
    /\ trace = << >>
    /\ rpc = "modes"
    /\ wanted_categories = << >>
    /\ ci = 1
    /\ total_edits = 0
    /\ skipped_categories = 0
    /\ calls = << >>
    /\ run_log = << >>
    /\ summary = << >>
    /\ io_log = << >>
    /\ pass = 1
    /\ first_trace = << >>
    /\ first_result = << >>
    /\ m_pc = "off"
    /\ m_text = << >>
    /\ m_name = << >>
    /\ m_found = FALSE
    /\ m_removed = << >>
    /\ m_twice = << >>

NextModes ==
    \/ GetMembers
    \/ SkipNonArticle
    \/ FetchFails
    \/ PageFound
    \/ SaveFails
    \/ PageNotFound
    \/ Exhausted
    \/ RerunLive

SpecModes == InitModes /\ [][NextModes]_vars

(***************************************************************************)
(* The Matcher on its own: check_category_in_text and                      *)
(* remove_category_from_text applied to a text and a name, the removal     *)
(* applied once more to its own result.                                    *)
(***************************************************************************)
MaxPieces == 4

\* "[[<localized keyword>:": the opening of a link, without name.
PieceOpenArabic == <<"[", "[">> \o KwArabic \o <<":">>
\* "Xy]]": the name CatA and the closing of a link.
PieceTail == CatA \o <<"]", "]">>
\* "[[CATEGORY:xy |k]]\n": a link of its own, keyword in capitals, the
\* name in small letters, a blank, a sort key and the end of its line.
PieceVariant == <<"[", "[">> \o KwUpper \o <<":", "x", "y", " ", "|", "k", "]", "]", "\n">>
\* "[[Category:Zz|": the opening of a link to CatB up to its sort key.
PieceOpenOther == <<"[", "[">> \o KwCategory \o <<":">> \o CatB \o <<"|">>

Pieces == {PieceOpenArabic, PieceTail, PieceVariant, PieceOpenOther}

RECURSIVE Flatten(_)
Flatten(ps) == IF ps = << >> THEN << >> ELSE ps[1] \o Flatten(Tail(ps))

\* The texts and names the Matcher is given.
MatchTexts == {Flatten(ps) : ps \in SeqsUpTo(Pieces, MaxPieces)}
MatchNames == {CatA, <<"x", "y">>, CatB}

\* has_category = self.check_category_in_text(text, category_name)
Check ==
    /\ m_pc = "input"
    /\ m_found' = check_category_in_text(m_text, m_name)
    /\ m_pc' = "checked"
    /\ UNCHANGED <<m_text, m_name, m_removed, m_twice,
                   cfg_vars, proc_vars, run_vars, resume_vars>>

\* new_text = self.remove_category_from_text(text, category_name)
Remove ==
    /\ m_pc = "checked"
    /\ m_removed' = remove_category_from_text(m_text, m_name)
    /\ m_pc' = "removed"
    /\ UNCHANGED <<m_text, m_name, m_found, m_twice,
                   cfg_vars, proc_vars, run_vars, resume_vars>>

\* The removal applied to the text the removal returned.
RemoveAgain ==
    /\ m_pc = "removed"
    /\ m_twice' = remove_category_from_text(m_removed, m_name)
    /\ m_pc' = "done"
    /\ UNCHANGED <<m_text, m_name, m_found, m_removed,
                   cfg_vars, proc_vars, run_vars, resume_vars>>

InitMatch ==
    /\ m_pc = "input"
    /\ m_text \in MatchTexts
    /\ m_name \in MatchNames
    /\ m_found = FALSE
    /\ m_removed = << >>
    /\ m_twice = << >>
    /\ max_check \in {1}
    /\ dry_run = TRUE
    /\ pc = "idle"
    /\ category_name = << >>
    /\ members = << >>
    /\ i = 1
    /\ edits_made = 0
    /\ not_found_count = 0
    /\ result = << >>
    /\ trace = << >>
    /\ rpc = "off"
    /\ wanted_categories = << >>
    /\ ci = 1
    /\ total_edits = 0
    /\ skipped_categories = 0
    /\ calls = << >>
    /\ run_log = << >>
    /\ summary = << >>
    /\ io_log = << >>
    /\ pass = 1
    /\ first_trace = << >>
    /\ first_result = << >>

NextMatch ==
    \/ Check
    \/ Remove
    \/ RemoveAgain

SpecMatch == InitMatch /\ [][NextMatch]_vars

(***************************************************************************)
(* Properties of process_category, stated over the trace of a call.        *)
(***************************************************************************)
\* The counters before the k-th entry of the trace was made.
PrevEdits(k) == IF k = 1 THEN 0 ELSE trace[k - 1].edits
PrevNf(k) == IF k = 1 THEN 0 ELSE trace[k - 1].nf

\* How many entries of the trace are of the given kind.
CountKind(kind) == Cardinality({k \in 1..Len(trace) : trace[k].kind = kind})

\* The number of not-found pages among the first k entries of tr that come
\* after the last edited page among them.
RECURSIVE MissesSinceEdit(_, _)
MissesSinceEdit(tr, k) ==
    IF k = 0 THEN 0
    ELSE IF tr[k].kind = "edited" THEN 0
    ELSE MissesSinceEdit(tr, k - 1) + (IF tr[k].kind = "not_found" THEN 1 ELSE 0)

\* C1 (cutover): for a threshold T >= 1, the member at which the not-found
\* counter reaches T is the last one the call handles: the call has returned
\* (edits so far, skipped = TRUE) and no later member of the listing was
\* fetched or saved.
C1_CutoverStopsAtThreshold ==
    max_check >= 1 =>
        \A k \in 1..Len(trace) :
            trace[k].nf >= max_check =>
                /\ trace[k].nf = max_check
                /\ k = Len(trace)
                /\ \A j \in 1..Len(trace) : trace[j].idx <= trace[k].idx
                /\ pc = "done"
                /\ result = <<trace[k].edits, TRUE>>

\* C1 witness: T consecutive misses at the head of a listing of articles
\* without the markup that holds two more members: (0, TRUE), and the last
\* two members were never examined.
C1_Witness ==
    /\ pc = "done"
    /\ max_check >= 1
    /\ result = <<0, TRUE>>
    /\ Len(trace) = max_check
    /\ Len(members) = max_check + 2
    /\ \A k \in 1..Len(members) :
          /\ members[k].namespace = 0
          /\ ~check_category_in_text(members[k].text, category_name)
    /\ \A k \in 1..Len(trace) : trace[k].kind = "not_found" /\ trace[k].idx = k

\* C2 (streak semantics): when the call has returned and every run of
\* not-found pages before the first, between two, and after the last edited
\* page is shorter than the threshold, the whole listing was handled and the
\* result is (number of edited pages, FALSE).
C2_StreakNotTotal ==
    (/\ pc = "done"
     /\ \A k \in 1..Len(trace) : MissesSinceEdit(trace, k) < max_check)
        => /\ result = <<CountKind("edited"), FALSE>>
           /\ Len(trace) = Len(members)

\* C2 witness: miss, hit, miss with a threshold of 2 gives (1, FALSE), though
\* the listing holds as many misses as the threshold.
C2_Witness ==
    /\ pc = "done"
    /\ max_check = 2
    /\ Len(trace) = 3
    /\ trace[1].kind = "not_found"
    /\ trace[2].kind = "edited"
    /\ trace[3].kind = "not_found"
    /\ result = <<1, FALSE>>

\* C3 as stated: the not-found counter never exceeds the threshold, for every
\* threshold the constructor accepts.
C3_CounterNeverExceedsThreshold ==
    not_found_count <= max_check

\* C4 as stated: every page on which the markup is matched leaves the
\* counter at 0, whatever happens afterwards on that page.
C4_AnyMatchResetsCounter ==
    \A k \in 1..Len(trace) :
        (trace[k].fetched /\ check_category_in_text(trace[k].text, category_name))
            => trace[k].nf = 0

\* C4 as amended: a page on which the markup is matched leaves the counter at
\* 0 when its text was changed by the removal and, in live mode, saved without
\* error; when the save raises (or the removal changes nothing) the counter
\* is left as it was before the page.
C4_MatchResetsCounterUnlessSaveFails ==
    \A k \in 1..Len(trace) :
        (trace[k].fetched /\ check_category_in_text(trace[k].text, category_name))
            => \/ /\ trace[k].kind = "edited"
                  /\ trace[k].nf = 0
               \/ /\ trace[k].kind \in {"save_error", "unchanged"}
                  /\ trace[k].nf = PrevNf(k)

\* C4 witness: an edit that follows a miss takes the counter from 1 to 0, and
\* a failed save that follows a miss leaves it at 1.
C4_Witness ==
    \E k, j \in 2..Len(trace) :
        /\ trace[k].kind = "edited" /\ PrevNf(k) = 1 /\ trace[k].nf = 0
        /\ trace[j].kind = "save_error" /\ PrevNf(j) = 1 /\ trace[j].nf = 1

\* C5 (page-level failures): a member whose fetch or save raised leaves
\* edits_made and the not-found counter as they were before it, and the loop
\* goes on with the next member of the listing: the call has not returned
\* unless that member was the last one, and then it returned skipped = FALSE.
C5_PageFailureIsNeutral ==
    \A k \in 1..Len(trace) :
        trace[k].kind \in {"fetch_error", "save_error"} =>
            /\ trace[k].edits = PrevEdits(k)
            /\ trace[k].nf = PrevNf(k)
            /\ k < Len(trace) => trace[k + 1].idx = trace[k].idx + 1
            /\ k = Len(trace) =>
                  \/ pc = "loop" /\ i = trace[k].idx + 1 /\ result = << >>
                  \/ /\ pc = "done"
                     /\ trace[k].idx = Len(members)
                     /\ result = <<edits_made, FALSE>>

\* C5 witness: a failed fetch and a failed save, both after a miss and both
\* followed by the handling of the next member.
C5_Witness ==
    /\ Len(trace) = 3
    /\ trace[1].kind = "not_found" /\ trace[1].nf = 1
    /\ trace[2].kind \in {"fetch_error", "save_error"}
    /\ trace[2].nf = 1
    /\ trace[3].kind = "save_error"
    /\ trace[3].idx = 3
    /\ pc = "done"

\* C6 (no no-op save): every save call belongs to a page whose text was
\* fetched and holds the markup, and its content is the result of the removal
\* and differs from the fetched text.
C6_SaveOnlyChangedText ==
    \A k \in 1..Len(trace) :
        \A n \in 1..Len(trace[k].saves) :
            /\ trace[k].fetched
            /\ check_category_in_text(trace[k].text, category_name)
            /\ trace[k].saves[n].content # trace[k].text
            /\ trace[k].saves[n].content =
                   remove_category_from_text(trace[k].text, category_name)

\* C6 witness: a save was made, and one of a text the removal shortened by
\* the link and the newline after it.
C6_Witness ==
    \E k \in 1..Len(trace) :
        /\ Len(trace[k].saves) = 1
        /\ trace[k].text = TextDirect
        /\ trace[k].saves[1].content = <<"a", "b">>

\* C7 (namespace filtering): a member whose namespace is not 0 is not
\* fetched, not saved, and leaves edits_made and the not-found counter as
\* they were, wherever it sits in the listing and whatever its text holds.
C7_NonArticleUntouched ==
    \A k \in 1..Len(trace) :
        members[trace[k].idx].namespace # 0 =>
            /\ ~trace[k].fetched
            /\ trace[k].saves = << >>
            /\ trace[k].edits = PrevEdits(k)
            /\ trace[k].nf = PrevNf(k)

\* C7 witness: a non-article page that holds the markup sits between two
\* misses: the streak goes 1, 1, 2 and the cutover comes at a threshold of 2.
C7_Witness ==
    /\ Len(trace) = 3
    /\ max_check = 2
    /\ trace[1].kind = "not_found" /\ trace[1].nf = 1
    /\ members[2].namespace # 0
    /\ check_category_in_text(members[2].text, category_name)
    /\ trace[2].nf = 1
    /\ trace[3].kind = "not_found" /\ trace[3].nf = 2
    /\ result = <<0, TRUE>>

\* C8 (preview mode): in a dry run no save call is made, and a page whose
\* markup is found and removable adds one to edits_made and leaves the
\* not-found counter at 0.
C8_DryRunCountsWithoutSaving ==
    dry_run =>
        \A k \in 1..Len(trace) :
            /\ trace[k].saves = << >>
            /\ members[trace[k].idx].text = trace[k].text \/ ~trace[k].fetched
            /\ (/\ trace[k].fetched
                /\ check_category_in_text(trace[k].text, category_name)
                /\ remove_category_from_text(trace[k].text, category_name)
                       # trace[k].text)
                   => /\ trace[k].edits = PrevEdits(k) + 1
                      /\ trace[k].nf = 0

\* C8 witness: a dry run in which an edit is counted after a miss (the
\* counter goes from 1 to 0) and the page keeps its text.
C8_Witness ==
    /\ dry_run
    /\ \E k \in 2..Len(trace) :
          /\ trace[k].kind = "edited"
          /\ PrevNf(k) = 1 /\ trace[k].nf = 0
          /\ trace[k].edits = PrevEdits(k) + 1
          /\ members[trace[k].idx].text = TextDirect

\* C9 (verdict): once the call has returned, skipped is TRUE exactly when the
\* not-found counter reached the threshold at some member, the edits returned
\* are the edits made (before the cutover, if any); without a cutover the
\* whole listing was handled; an empty or failed listing gives (0, FALSE)
\* with nothing fetched or saved.
C9_Verdict ==
    pc = "done" =>
        /\ result[2] <=> (\E k \in 1..Len(trace) :
                              /\ trace[k].kind = "not_found"
                              /\ trace[k].nf >= max_check)
        /\ result[1] = edits_made
        /\ result[1] = CountKind("edited")
        /\ ~result[2] => Len(trace) = Len(members)
        /\ members = << >> => result = <<0, FALSE>> /\ trace = << >>

\* C9 witness: a cutover that comes after an edit: (1, TRUE).
C9_Witness ==
    /\ pc = "done"
    /\ result = <<1, TRUE>>
    /\ Len(trace) < Len(members)

(***************************************************************************)
(* Properties of run.                                                      *)
(***************************************************************************)
\* C10 (run driver isolation): the categories handed to process_category are
\* the wanted list in order, each once; a category whose call raised is
\* logged and the loop goes on: when the run finishes, every category of the
\* list has been handed over and finished.
C10_EveryCategoryOnceInOrder ==
    rpc \in {"loop", "finished"} =>
        /\ Len(calls) <= Len(wanted_categories)
        /\ calls = SubSeq(wanted_categories, 1, Len(calls))
        /\ Len(calls) = IF pc = "idle" THEN ci - 1 ELSE ci
        /\ Len(run_log) = ci - 1
        /\ \A k \in 1..Len(run_log) :
              run_log[k].category = wanted_categories[k]
        /\ rpc = "finished" =>
              calls = wanted_categories /\ Len(run_log) = Len(wanted_categories)

\* C10 witness: the first category raised, the second was processed and
\* returned, and the run finished.
C10_Witness ==
    /\ rpc = "finished"
    /\ Len(wanted_categories) = 2
    /\ run_log[1].outcome = "raised"
    /\ run_log[2].outcome = "returned"
    /\ calls = wanted_categories

(***************************************************************************)
(* Properties of run, continued.                                           *)
(***************************************************************************)
\* The sum of the edits of the categories of log that returned.
RECURSIVE ReturnedEdits(_)
ReturnedEdits(log) ==
    IF log = << >> THEN 0
    ELSE (IF log[1].outcome = "returned" THEN log[1].edits ELSE 0)
             + ReturnedEdits(Tail(log))

\* The number of categories of log that returned skipped = True.
ReturnedSkipped(log) ==
    Cardinality({k \in 1..Len(log) :
                    log[k].outcome = "returned" /\ log[k].skipped})

\* C11: when run logs its summary, "processed" is the number of wanted
\* categories (every one of them has returned or raised), "edits" is the sum
\* of the edits of the categories that returned, those of a category that
\* was cut over included, and "skipped" is the number of categories that
\* returned skipped = True; a category that raised adds to neither.
C11_SummaryExact ==
    rpc = "finished" =>
        /\ Len(run_log) = Len(wanted_categories)
        /\ summary = <<[processed |-> Len(wanted_categories),
                        skipped |-> ReturnedSkipped(run_log),
                        edits |-> ReturnedEdits(run_log)]>>

\* A finished run with a category that raised and a category that was cut
\* over after an edit.
C11_Witness ==
    /\ rpc = "finished"
    /\ \E k \in 1..Len(run_log) : run_log[k].outcome = "raised"
    /\ \E k \in 1..Len(run_log) :
          /\ run_log[k].outcome = "returned"
          /\ run_log[k].edits >= 1
          /\ run_log[k].skipped

\* C12: when connect fails nothing else is called: the wanted list is not
\* requested and no category is processed; when the wanted list raised or
\* came back empty no category is processed.  In both cases no page was
\* fetched or saved.
C12_FatalErrorsStopRun ==
    LET NothingProcessed ==
            /\ calls = << >>
            /\ run_log = << >>
            /\ trace = << >>
            /\ pc = "idle"
    IN  /\ (Len(io_log) >= 1 /\ io_log[1].outcome = "failed") =>
            (Len(io_log) = 1 /\ NothingProcessed)
        /\ (Len(io_log) >= 2 /\ io_log[2].outcome # "ok") =>
            (Len(io_log) = 2 /\ NothingProcessed)

\* run has stopped after a wanted list that raised.
C12_Witness ==
    /\ rpc = "exit_empty"
    /\ io_log[2].outcome = "raised"
    /\ calls = << >>

\* run has returned or was left by an exception.
RunEnded == rpc \notin {"connect", "wanted", "loop"}

\* C13 as stated: every run that has ended has logged the summary.
C13_EveryRunReportsSummary == RunEnded => summary # << >>

\* C13: a run that connected and was given a wanted list that is not empty
\* ends by logging the summary, also when categories raised; a run that
\* ended after a failed connect or an empty wanted list logged none.
C13_LoopLeadsToSummary ==
    /\ (rpc = "loop") ~> (rpc = "finished" /\ summary # << >>)
    /\ [](rpc \in {"exit_connect", "exit_empty"} => summary = << >>)

\* A finished run all of whose categories raised, its summary logged.
C13_Witness ==
    /\ rpc = "finished"
    /\ summary # << >>
    /\ Len(run_log) = MaxWanted
    /\ \A k \in 1..Len(run_log) : run_log[k].outcome = "raised"

(***************************************************************************)
(* Properties of the Matcher.                                              *)
(***************************************************************************)
\* A link to name as the description of the Matcher defines it, at
\* position at of text: "[[", the keyword (the English one in any letter
\* case, or the localized one), ":", the name letter for letter, blanks,
\* an optional sort key, "]]".  The position after the link, 0 when there
\* is none there.
LinkEnd(text, at, name) ==
    LET LinkEndWith(keyword) ==
            LET head == Literal(<<"[", "[">>) \o Literal(keyword) \o Literal(<<":">>)
                n == at + Len(head)
            IN  IF ~AtomsAt(text, at, head) THEN 0
                ELSE IF \/ n + Len(name) - 1 > Len(text)
                        \/ \E k \in 1..Len(name) : text[n + k - 1] # name[k]
                THEN 0
                ELSE LET j == SkipSpaces(text, n + Len(name))
                         c == SkipNonClose(text, j + 1)
                     IN  IF j <= Len(text) /\ text[j] = "|"
                            /\ AtomsAt(text, c, Literal(<<"]", "]">>))
                         THEN c + 2
                         ELSE IF AtomsAt(text, j, Literal(<<"]", "]">>))
                              THEN j + 2 ELSE 0
    IN  IF LinkEndWith(KwCategory) # 0 THEN LinkEndWith(KwCategory)
        ELSE LinkEndWith(KwArabic)

\* text holds a link to name.
HasLink(text, name) == \E at \in 1..Len(text) : LinkEnd(text, at, name) # 0

\* The links to name in text from position at on, from left to right.
RECURSIVE LinksFrom(_, _, _)
LinksFrom(text, at, name) ==
    IF at > Len(text) THEN << >>
    ELSE LET e == LinkEnd(text, at, name)
         IN  IF e # 0
             THEN <<SubSeq(text, at, e - 1)>> \o LinksFrom(text, e, name)
             ELSE LinksFrom(text, at + 1, name)

\* C14 as stated: check_category_in_text is true exactly for the texts
\* that hold a link to the name, the name compared letter for letter and
\* only the keyword compared without regard to letter case.
C14_CheckIsExactLinkTest ==
    m_pc \in {"checked", "removed", "done"} =>
        (m_found <=> HasLink(m_text, m_name))

\* C15 as stated: removing the links to one name leaves the links to
\* every other name as they were.
C15_OtherLinksIntact ==
    m_pc \in {"removed", "done"} =>
        \A other \in MatchNames \ {m_name} :
            LinksFrom(m_removed, 1, other) = LinksFrom(m_text, 1, other)

\* C16 as stated: removing twice gives what removing once gives, and a
\* text in which nothing is found is returned as it was.
C16_RemoveIdempotent ==
    m_pc = "done" =>
        /\ m_twice = m_removed
        /\ ~m_found => m_removed = m_text

\* C20: check_category_in_text is true exactly when
\* remove_category_from_text returns a text other than the one it was
\* given, so the branch for a found category whose removal changes nothing
\* (line 251) cannot be taken.
C20_FoundIffRemovalChanges ==
    m_pc \in {"removed", "done"} => (m_found <=> m_removed # m_text)

\* A link with the localized keyword between two links in other spellings:
\* found, and all of it removed.
C20_Witness ==
    /\ m_pc = "removed"
    /\ m_name = CatA
    /\ m_text = PieceVariant \o PieceOpenArabic \o PieceTail \o PieceVariant
    /\ m_found
    /\ m_removed = << >>

(***************************************************************************)
(* Properties of process_category, continued.                              *)
(***************************************************************************)
\* No entry of tr is a page whose fetch or save raised.
NoPageError(tr) ==
    \A k \in 1..Len(tr) : tr[k].kind \notin {"fetch_error", "save_error"}

\* C17 as stated: a second call for the same category in live mode, after
\* a first call without page error and with the pages as it left them,
\* saves nothing and counts no edit, and every page the first call saved
\* is a page without the markup in the second.
C17_SecondPassSavesNothing ==
    (pass = 2 /\ NoPageError(first_trace) /\ NoPageError(trace)) =>
        /\ edits_made = 0
        /\ \A k \in 1..Len(trace) : trace[k].saves = << >>
        /\ \A k \in 1..Len(trace) :
              (k <= Len(first_trace) /\ first_trace[k].saves # << >>) =>
                  trace[k].kind = "not_found"

\* C18: every save call is flagged as a minor edit and its summary is the
\* fixed wording around the name of the category being processed, the same
\* for every page of the call.
C18_SaveMinorWithSummaryOfName ==
    \A k \in 1..Len(trace) :
        \A n \in 1..Len(trace[k].saves) :
            /\ trace[k].saves[n].minor
            /\ trace[k].saves[n].summary =
                   <<"Removing non-existent category: [[Category:",
                     category_name, "]]">>

\* Two pages of different text were saved in one call.
C18_Witness ==
    \E k, l \in 1..Len(trace) :
        /\ trace[k].saves # << >> /\ trace[k].text = TextDirect
        /\ trace[l].saves # << >> /\ trace[l].text = TextVariant

\* C19: the members are handled in the order of the listing, one entry of
\* the trace per member and none twice: a member is fetched at most once
\* and saved at most once, a save belongs to the entry of the member whose
\* text was fetched for it, and the member in hand is the one after the
\* last entry.
C19_MembersInListingOrder ==
    /\ Len(trace) <= Len(members)
    /\ pc = "loop" => i = Len(trace) + 1
    /\ \A k \in 1..Len(trace) :
          /\ trace[k].idx = k
          /\ Len(trace[k].saves) <= 1
          /\ trace[k].saves # << >> =>
                (trace[k].fetched /\ trace[k].kind \in {"edited", "save_error"})

\* A call that handled three members: a fetch that raised, a save, a miss.
C19_Witness ==
    /\ pc = "done"
    /\ Len(trace) = 3
    /\ trace[1].kind = "fetch_error"
    /\ trace[2].kind = "edited" /\ trace[2].saves # << >>
    /\ trace[3].kind = "not_found"

\* The number of save calls among the first n entries of the trace that
\* completed: the page holds the content that was handed to save.
CompletedSaves(n) ==
    Cardinality({k \in 1..n :
        /\ trace[k].saves # << >>
        /\ members[trace[k].idx].text = trace[k].saves[1].content})

\* C21: in live mode edits_made is, after every member handled and in the
\* value returned, the number of save calls of the call that completed
\* without raising, and it never decreases from one member to the next.
C21_EditsAreCompletedSaves ==
    ~dry_run =>
        /\ edits_made = CompletedSaves(Len(trace))
        /\ \A k \in 1..Len(trace) :
              /\ trace[k].edits = CompletedSaves(k)
              /\ trace[k].edits >= PrevEdits(k)
        /\ (pc = "done" /\ result # << >>) =>
              result[1] = CompletedSaves(Len(trace))

\* A live call that has returned after a save that completed and a save
\* that raised.
C21_Witness ==
    /\ ~dry_run
    /\ pc = "done"
    /\ result # << >> /\ result[1] = 1
    /\ \E k, l \in 1..Len(trace) :
          /\ trace[k].kind = "save_error"
          /\ trace[l].kind = "edited" /\ trace[l].saves # << >>

\* The fetch of page.text() raised for the same members in both calls, as
\* far as both have come, and no save of the live call raised.
SameFailuresNoSaveFails ==
    /\ \A k \in 1..Len(trace) :
          k <= Len(first_trace) =>
              (trace[k].kind = "fetch_error" <=> first_trace[k].kind = "fetch_error")
    /\ \A k \in 1..Len(trace) : trace[k].kind # "save_error"

\* C22: for the same listing, texts and threshold, the same fetch
\* failures and no save failure, the call in live mode handles the same
\* members in the same order as the call in dry-run mode, fetches the same
\* texts, and returns the same pair; the dry run made no save call.
C22_DryRunSameAsLive ==
    (rpc = "modes" /\ pass = 2 /\ SameFailuresNoSaveFails) =>
        /\ Len(trace) <= Len(first_trace)
        /\ \A k \in 1..Len(trace) :
              /\ trace[k].idx = first_trace[k].idx
              /\ trace[k].kind = first_trace[k].kind
              /\ trace[k].fetched = first_trace[k].fetched
              /\ trace[k].text = first_trace[k].text
        /\ \A k \in 1..Len(first_trace) : first_trace[k].saves = << >>
        /\ pc = "done" =>
              /\ result = first_result
              /\ Len(trace) = Len(first_trace)

\* Both calls have returned one edit and a cutover; the live call saved.
C22_Witness ==
    /\ rpc = "modes" /\ pass = 2 /\ pc = "done"
    /\ SameFailuresNoSaveFails
    /\ result = <<1, TRUE>>
    /\ first_result = <<1, TRUE>>
    /\ \E k \in 1..Len(trace) : trace[k].saves # << >>
    /\ \E k \in 1..Len(trace) : trace[k].kind = "fetch_error"

(***************************************************************************)
(* Termination.                                                            *)
(***************************************************************************)
\* C23: a call of process_category returns a pair, whatever page fetches
\* and saves raise, and has then handled at most as many members as the
\* listing holds (inside run it may instead be left by an exception that
\* is not a page failure); run returns for every wanted list.
C23_Terminates ==
    /\ (rpc = "off" /\ pc = "start") ~> (pc = "done" /\ result # << >>)
    /\ (rpc = "loop" /\ pc \in {"start", "loop"}) ~>
           ((pc = "done" /\ result # << >>) \/ pc = "raised")
    /\ (rpc = "connect") ~> (rpc \in {"finished", "exit_connect", "exit_empty"})
    /\ [](Len(trace) <= Len(members))

\* A call that returned after a fetch and a save had raised and every
\* member of a full listing was handled.
C23_Witness ==
    /\ rpc = "off" /\ pc = "done" /\ result # << >>
    /\ Len(members) = MaxMembers
    /\ Len(trace) = Len(members)
    /\ \E k \in 1..Len(trace) : trace[k].kind = "fetch_error"
    /\ \E k \in 1..Len(trace) : trace[k].kind = "save_error"

====
